---- MODULE Spec2Model ----
(***************************************************************************)
(* Model of jortestkit's release resolution (src/github/mod.rs) and of the *)
(* load monitor thread (src/load/monitor.rs).                              *)
(*                                                                         *)
(* A file name is a sequence of atoms.  An atom is the character ".", the  *)
(* character "/", or a run of characters holding neither ("a", "sha1",     *)
(* "sha256"), so that a name such as a.sha1/ is <<"a", ".", "sha1", "/">>. *)
(* Path::extension and str::strip_suffix only look at "." and "/" and at   *)
(* whole runs between them, which is what the atoms keep.                  *)
(***************************************************************************)
EXTENDS Integers, Sequences, FiniteSets, TLC

VARIABLES
    \* ChecksumType::from_filename / strip_suffix on one name
    name, kind, stripped, cpc,
    \* Asset::assets_from_dtos
    dtos, res, first, calls,
    \* CachedReleases::get_asset_for_current_os_by_version, compact_os_types
    inner, host, version, found, bucket, compacted,
    \* Asset::download_to
    checksum, served, disk, dpc, dres, requests, verified,
    \* MonitorThread
    monitor, tpc, chan, poisoned, spc, finished, reports, lateReport

classifyVars == <<name, kind, stripped, cpc>>
pairVars     == <<dtos, res, first, calls>>
indexVars    == <<inner, host, version, found, bucket, compacted>>
downloadVars == <<checksum, served, disk, dpc, dres, requests, verified>>
monitorVars  == <<monitor, tpc, chan, poisoned, spc, finished, reports, lateReport>>
vars == <<classifyVars, pairVars, indexVars, downloadVars, monitorVars>>

----------------------------------------------------------------------------
(* Option<T> *)
None == [some |-> FALSE]
Some(x) == [some |-> TRUE, val |-> x]

SeqsUpTo(S, n) == UNION {[1..k -> S] : k \in 0..n}

----------------------------------------------------------------------------
(* Names, Path::extension, ChecksumType *)

MaxLen == 4

Atom == {"a", ".", "/", "sha1", "sha256"}

\* ChecksumType::extension
Extension(k) == IF k = "Sha1" THEN <<".", "sha1">> ELSE <<".", "sha256">>

EndsWith(s, suffix) ==
    /\ Len(s) >= Len(suffix)
    /\ SubSeq(s, Len(s) - Len(suffix) + 1, Len(s)) = suffix

\* str::strip_suffix: the name without the suffix, or None
StripSuffix(s, suffix) ==
    IF EndsWith(s, suffix) THEN Some(SubSeq(s, 1, Len(s) - Len(suffix))) ELSE None

\* The components of a path: the runs between "/" (empty ones included)
RECURSIVE Split(_)
Split(s) ==
    IF s = <<>> THEN << <<>> >>
    ELSE LET r == Split(Tail(s))
         IN  IF Head(s) = "/" THEN << <<>> >> \o r
             ELSE << <<Head(s)>> \o Head(r) >> \o Tail(r)

\* Path::file_name: the last component when it is a normal one.  Repeated and
\* trailing separators and "." components are skipped; a path ending in ".."
\* (or with no component left) has no file name.
FileName(s) ==
    LET comps == SelectSeq(Split(s), LAMBDA c : c # <<>> /\ c # <<".">>)
    IN  IF comps = <<>> THEN None
        ELSE IF comps[Len(comps)] = <<".", ".">> THEN None
        ELSE Some(comps[Len(comps)])

LastDot(f) == IF \E i \in 1..Len(f) : f[i] = "."
              THEN CHOOSE i \in 1..Len(f) : f[i] = "." /\ \A j \in (i+1)..Len(f) : f[j] # "."
              ELSE 0

\* Path::extension: what follows the last "." of the file name, when the file
\* name has a "." that is not its first character
PathExtension(s) ==
    LET fn == FileName(s)
    IN  IF ~fn.some THEN None
        ELSE LET f == fn.val
                 i == LastDot(f)
             IN  IF i <= 1 THEN None ELSE Some(SubSeq(f, i + 1, Len(f)))

\* ChecksumType::from_filename
from_filename(filename) ==
    LET extension == PathExtension(filename)
    IN  IF ~extension.some THEN "None"
        ELSE IF extension.val = <<"sha1">> THEN "Sha1"
        ELSE IF extension.val = <<"sha256">> THEN "Sha256"
        ELSE "None"

----------------------------------------------------------------------------
(* Asset::assets_from_dtos *)

MaxDtos == 3

\* AssetDto names of one release: a primary, its two sidecars, a sidecar name
\* with a trailing separator, a dot-file and a second primary
PairNames == { <<"a">>, <<"a", ".", "sha1">>, <<"a", ".", "sha256">>,
               <<"a", ".", "sha1", "/">>, <<".", "sha1">>, <<"b">> }

Url == {"u1", "u2"}

\* AssetDto: name() and download_url()
AssetDto == [name : PairNames, url : Url]

\* Path::file_stem: the file name without its extension
FileStem(s) ==
    LET fn == FileName(s)
    IN  IF ~fn.some THEN <<>>
        ELSE IF LastDot(fn.val) <= 1 THEN fn.val
        ELSE SubSeq(fn.val, 1, LastDot(fn.val) - 1)

\* Mutant: the sidecar is keyed by the file stem of its path, not by its name
\* without the extension
RECURSIVE Scan_stem(_, _, _)
Scan_stem(ds, assets, checksums) ==
    IF ds = <<>> THEN [panic |-> FALSE, assets |-> assets, checksums |-> checksums]
    ELSE LET dto == Head(ds)
             checksum_type == from_filename(dto.name)
         IN  IF checksum_type = "None"
             THEN Scan_stem(Tail(ds), Append(assets, dto), checksums)
             ELSE Scan_stem(Tail(ds), assets,
                            (FileStem(dto.name) :> [kind |-> checksum_type, dto |-> dto])
                                @@ checksums)

\* Mutant: an entry already in the map is kept (the first sidecar wins)
RECURSIVE Scan_first_wins(_, _, _)
Scan_first_wins(ds, assets, checksums) ==
    IF ds = <<>> THEN [panic |-> FALSE, assets |-> assets, checksums |-> checksums]
    ELSE LET dto == Head(ds)
             checksum_type == from_filename(dto.name)
         IN  IF checksum_type = "None"
             THEN Scan_first_wins(Tail(ds), Append(assets, dto), checksums)
             ELSE LET n == StripSuffix(dto.name, Extension(checksum_type))
                  IN  IF ~n.some
                      THEN [panic |-> TRUE, assets |-> <<>>, checksums |-> <<>>]
                      ELSE Scan_first_wins(Tail(ds), assets,
                                checksums @@ (n.val :> [kind |-> checksum_type, dto |-> dto]))

\* Mutant: the entry is read (get) and stays in the map
RECURSIVE Attach_get(_, _)
Attach_get(assets, checksums) ==
    IF assets = <<>> THEN <<>>
    ELSE LET asset == Head(assets)
             has == asset.name \in DOMAIN checksums
         IN  << [asset |-> asset,
                 checksum |-> IF has THEN Some(checksums[asset.name]) ELSE None] >>
             \o Attach_get(Tail(assets), checksums)

\* The first loop: primaries are pushed in order, a sidecar is inserted in the
\* HashMap under its stripped name (replacing the entry of that key), and a
\* sidecar whose name does not end in its kind's extension fails the unwrap.
RECURSIVE Scan(_, _, _)
Scan(ds, assets, checksums) ==
    IF ds = <<>> THEN [panic |-> FALSE, assets |-> assets, checksums |-> checksums]
    ELSE LET dto == Head(ds)
             checksum_type == from_filename(dto.name)
         IN  IF checksum_type = "None"
             THEN Scan(Tail(ds), Append(assets, dto), checksums)
             ELSE LET n == StripSuffix(dto.name, Extension(checksum_type))
                  IN  IF ~n.some
                      THEN [panic |-> TRUE, assets |-> <<>>, checksums |-> <<>>]
                      ELSE Scan(Tail(ds), assets,
                                (n.val :> [kind |-> checksum_type, dto |-> dto]) @@ checksums)

\* The second loop: each primary takes (removes) the entry of its own name
RECURSIVE Attach(_, _)
Attach(assets, checksums) ==
    IF assets = <<>> THEN <<>>
    ELSE LET asset == Head(assets)
             has == asset.name \in DOMAIN checksums
         IN  << [asset |-> asset,
                 checksum |-> IF has THEN Some(checksums[asset.name]) ELSE None] >>
             \o Attach(Tail(assets),
                       [n \in DOMAIN checksums \ {asset.name} |-> checksums[n]])

assets_from_dtos(ds) ==
    LET s == Scan(ds, <<>>, <<>>)
    IN  IF s.panic THEN [called |-> TRUE, panic |-> TRUE, assets |-> <<>>]
        ELSE [called |-> TRUE, panic |-> FALSE, assets |-> Attach(s.assets, s.checksums)]

NoResult == [called |-> FALSE, panic |-> FALSE, assets |-> <<>>]

Swap(s, i) == [s EXCEPT ![i] = s[i + 1], ![i + 1] = s[i]]

----------------------------------------------------------------------------
(* Release, CachedReleases *)

MaxReleases == 2

\* os_info::Type, a representative part: the five identifiers the match names,
\* Linux and some distributions, and Emscripten (neither of them)
OsType == {"Android", "Macos", "Redox", "Unknown", "Windows",
           "Linux", "Ubuntu", "Debian", "Alpine", "Emscripten"}

LinuxFamily == {"Linux", "Ubuntu", "Debian", "Alpine"}

Buckets == {"Android", "Macos", "Redox", "Windows", "Unknown", "Linux"}

\* Release::compact_os_types
compact_os_types(os_type) ==
    CASE os_type = "Android" -> "Android"
      [] os_type = "Macos"   -> "Macos"
      [] os_type = "Redox"   -> "Redox"
      [] os_type = "Unknown" -> "Unknown"
      [] os_type = "Windows" -> "Windows"
      [] OTHER               -> "Linux"

\* Mutant: the map is read under the host's own type, not the compacted one
get_release_for_os_raw(release, os_type) ==
    IF os_type \in DOMAIN release.releases_per_os
    THEN Some(release.releases_per_os[os_type])
    ELSE None

\* Release::get_release_for_os
get_release_for_os(release, os_type) ==
    LET compacted_os_type == compact_os_types(os_type)
    IN  IF compacted_os_type \in DOMAIN release.releases_per_os
        THEN Some(release.releases_per_os[compacted_os_type])
        ELSE None

\* Version strings, as sequences: a leading marker "v" and the number
VersionStr == { <<"v", "1.2.3">>, <<"1.2.3">>, <<"v", "2.0.0">> }
StoredVersion == { <<"v", "1.2.3">>, <<"1.2.3">> }

\* Mutant: the versions are compared without their leading marker
VersionMatches_unmarked(stored, requested) ==
    LET strip(v) == IF v # <<>> /\ Head(v) = "v" THEN Tail(v) ELSE v
    IN  strip(stored) = strip(requested)

\* String equality of line 194: *x.version == version
VersionMatches(stored, requested) == stored = requested

\* releases_per_os: at most one Asset per OS key
PerOs == { f \in [{"Linux", "Macos"} -> {"none", "asset1", "asset2"}] : f["Macos"] # "asset2" }
AsMap(f) == [k \in {k \in DOMAIN f : f[k] # "none"} |-> f[k]]

Release == { [version |-> v, releases_per_os |-> AsMap(f)] : v \in StoredVersion, f \in PerOs }

\* CachedReleases::get_asset_for_current_os_by_version
get_asset_for_current_os_by_version(releases, v, os) ==
    LET hits == {i \in 1..Len(releases) : VersionMatches(releases[i].version, v)}
    IN  IF hits = {}
        THEN [tag |-> "Err", error |-> "CannotFindReleaseWithVersion", version |-> v,
              asset |-> None]
        ELSE LET i == CHOOSE i \in hits : \A j \in hits : i <= j
             IN  [tag |-> "Ok", error |-> "", version |-> <<>>,
                  asset |-> get_release_for_os(releases[i], os)]

NotAsked == [tag |-> "NotAsked", error |-> "", version |-> <<>>, asset |-> None]

----------------------------------------------------------------------------
(* Asset::download_to *)

MaxHexLen == 2

Content == {"c1", "c2"}

\* The digest of a file's contents, cut to one byte; distinct contents and
\* distinct algorithms give distinct digests
Digest(k, contents) ==
    CASE k = "Sha1"   /\ contents = "c1" -> <<10>>
      [] k = "Sha1"   /\ contents = "c2" -> <<17>>
      [] k = "Sha256" /\ contents = "c1" -> <<161>>
      [] k = "Sha256" /\ contents = "c2" -> <<16>>

\* Characters of a sidecar's text: hex digits of both cases and one that is none
HexChar == {"0", "1", "a", "A", "g"}

HexVal(c) ==
    CASE c = "0" -> 0
      [] c = "1" -> 1
      [] c = "a" -> 10
      [] c = "A" -> 10
      [] OTHER   -> -1

\* hex::decode: an odd length or a character that is no hex digit is an error
HexDecode(text) ==
    IF Len(text) % 2 # 0 \/ \E i \in 1..Len(text) : HexVal(text[i]) < 0
    THEN None
    ELSE Some([i \in 1..(Len(text) \div 2) |->
                  16 * HexVal(text[2 * i - 1]) + HexVal(text[2 * i])])

\* Mutant: the SHA-1 digest is compared whatever the kind
check_sha1(k, bytes, contents) == Digest("Sha1", contents) = bytes

\* ChecksumType::check, on the contents read from the file
check(k, bytes, contents) == Digest(k, contents) = bytes

\* Option<(ChecksumType, AssetDto)>, the sidecar standing for the text it serves
ChecksumPair == {None} \cup
    { Some([kind |-> k, text |-> t]) : k \in {"Sha1", "Sha256"}, t \in SeqsUpTo(HexChar, MaxHexLen) }

----------------------------------------------------------------------------
(* Each part's state before it is used *)

ClassifyIdle == name = <<>> /\ kind = "None" /\ stripped = None /\ cpc = "idle"
PairIdle     == dtos = <<>> /\ res = NoResult /\ first = NoResult /\ calls = 0
IndexIdle    == /\ inner = <<>> /\ host = "Unknown" /\ version = <<>>
                /\ found = NotAsked /\ bucket = "Unknown" /\ compacted = 0
DownloadIdle == /\ checksum = None /\ served = "c1" /\ disk = None /\ dpc = "idle"
                /\ dres = "none" /\ requests = 0 /\ verified = FALSE
MonitorIdle  == /\ monitor = "Disabled" /\ tpc = "idle" /\ chan = 0 /\ poisoned = FALSE
                /\ spc = "idle" /\ finished = 0 /\ reports = 0 /\ lateReport = FALSE

----------------------------------------------------------------------------
(* Classifying one name: lines 79-84 of assets_from_dtos on a single dto *)

InitClassify ==
    /\ name \in SeqsUpTo(Atom, MaxLen)
    /\ kind = "None" /\ stripped = None /\ cpc = "start"
    /\ PairIdle /\ IndexIdle /\ DownloadIdle /\ MonitorIdle

\* ChecksumType::from_filename(Path::new(&asset_name))
Classify ==
    /\ cpc = "start"
    /\ kind' = from_filename(name)
    /\ cpc' = IF kind' = "None" THEN "primary" ELSE "classified"
    /\ UNCHANGED <<name, stripped>>
    /\ UNCHANGED <<pairVars, indexVars, downloadVars, monitorVars>>

\* asset_name.strip_suffix(checksum_type.extension()).unwrap()
Strip ==
    /\ cpc = "classified"
    /\ stripped' = StripSuffix(name, Extension(kind))
    /\ cpc' = IF stripped'.some THEN "sidecar" ELSE "panic"
    /\ UNCHANGED <<name, kind>>
    /\ UNCHANGED <<pairVars, indexVars, downloadVars, monitorVars>>

NextClassify == Classify \/ Strip

SpecClassify == InitClassify /\ [][NextClassify]_vars

----------------------------------------------------------------------------
(* Pairing the files of one release, then again in another order *)

InitPair ==
    /\ dtos \in SeqsUpTo(AssetDto, MaxDtos)
    /\ res = NoResult /\ first = NoResult /\ calls = 0
    /\ ClassifyIdle /\ IndexIdle /\ DownloadIdle /\ MonitorIdle

\* Asset::assets_from_dtos(dtos); the first call's result is kept
CallAssetsFromDtos ==
    /\ ~res.called
    /\ res' = assets_from_dtos(dtos)
    /\ first' = IF calls = 0 THEN res' ELSE first
    /\ calls' = IF calls = 0 THEN 1 ELSE 2
    /\ UNCHANGED dtos
    /\ UNCHANGED <<classifyVars, indexVars, downloadVars, monitorVars>>

\* The caller hands the same files over in another order
Permute ==
    /\ res.called
    /\ \E i \in 1..(Len(dtos) - 1) :
          /\ dtos[i] # dtos[i + 1]
          /\ dtos' = Swap(dtos, i)
    /\ res' = NoResult
    /\ UNCHANGED <<first, calls>>
    /\ UNCHANGED <<classifyVars, indexVars, downloadVars, monitorVars>>

NextPair == CallAssetsFromDtos \/ Permute

SpecPair == InitPair /\ [][NextPair]_vars

----------------------------------------------------------------------------
(* Looking a release up by version for the host's OS *)

InitIndex ==
    /\ inner \in SeqsUpTo(Release, MaxReleases)
    /\ host \in OsType
    /\ version \in VersionStr
    /\ found = NotAsked
    /\ bucket = host /\ compacted = 0
    /\ ClassifyIdle /\ PairIdle /\ DownloadIdle /\ MonitorIdle

\* CachedReleases::get_asset_for_current_os_by_version(version), os_info::get()
\* giving host
GetAsset ==
    /\ found = NotAsked
    /\ found' = get_asset_for_current_os_by_version(inner, version, host)
    /\ UNCHANGED <<inner, host, version, bucket, compacted>>
    /\ UNCHANGED <<classifyVars, pairVars, downloadVars, monitorVars>>

\* Release::compact_os_types, applied to the host's type and then to its own result
CompactOs ==
    /\ compacted < 2
    /\ bucket' = compact_os_types(bucket)
    /\ compacted' = compacted + 1
    /\ UNCHANGED <<inner, host, version, found>>
    /\ UNCHANGED <<classifyVars, pairVars, downloadVars, monitorVars>>

NextIndex == GetAsset \/ CompactOs

SpecIndex == InitIndex /\ [][NextIndex]_vars

----------------------------------------------------------------------------
(* Downloading one asset to a path *)

InitDownload ==
    /\ checksum \in ChecksumPair
    /\ served \in Content
    /\ disk = None /\ dpc = "start" /\ dres = "none" /\ requests = 0 /\ verified = FALSE
    /\ ClassifyIdle /\ PairIdle /\ IndexIdle /\ MonitorIdle

\* crate::web::download_file: the bytes served at the url are streamed to the path
download_file(bytes) == Some(bytes)

\* download_file(self.download_url(), path)?: the served bytes are written to
\* the path, or the download fails and leaves nothing or anything there
DownloadFile ==
    /\ dpc = "start"
    /\ \/ /\ disk' = download_file(served)
          /\ dpc' = IF checksum.some THEN "downloaded" ELSE "done"
          /\ dres' = IF checksum.some THEN "none" ELSE "Ok"
       \/ /\ disk' \in {None} \cup {Some(c) : c \in Content}
          /\ dpc' = "done"
          /\ dres' = "Download"
    /\ UNCHANGED <<checksum, served, requests, verified>>
    /\ UNCHANGED <<classifyVars, pairVars, indexVars, monitorVars>>

\* Another process rewrites or removes the file between the download and the check
Tamper ==
    /\ dpc \in {"downloaded", "fetched"}
    /\ disk' \in ({None} \cup {Some(c) : c \in Content}) \ {disk}
    /\ UNCHANGED <<checksum, served, dpc, dres, requests, verified>>
    /\ UNCHANGED <<classifyVars, pairVars, indexVars, monitorVars>>

\* reqwest::blocking::get(&asset.download_url())? and checksum.text()?
FetchSidecar ==
    /\ dpc = "downloaded"
    /\ requests' = requests + 1
    /\ \/ dpc' = "fetched" /\ dres' = "none"
       \/ dpc' = "done" /\ dres' = "RequestError"
    /\ UNCHANGED <<checksum, served, disk, verified>>
    /\ UNCHANGED <<classifyVars, pairVars, indexVars, monitorVars>>

\* checksum_type.check(&hex::decode(text)?, path)?, and the result of download_to
Verify ==
    /\ dpc = "fetched"
    /\ LET bytes == HexDecode(checksum.val.text)
       IN  /\ verified' = bytes.some
           /\ dres' = IF ~bytes.some THEN "InvalidChecksum"
                      ELSE IF ~disk.some THEN "IO"
                      ELSE IF check(checksum.val.kind, bytes.val, disk.val) THEN "Ok"
                      ELSE "WrongChecksum"
    /\ dpc' = "done"
    /\ UNCHANGED <<checksum, served, disk, requests>>
    /\ UNCHANGED <<classifyVars, pairVars, indexVars, monitorVars>>

NextDownload == DownloadFile \/ Tamper \/ FetchSidecar \/ Verify

SpecDownload == InitDownload /\ [][NextDownload]_vars

----------------------------------------------------------------------------
(* MonitorThread: the spawned thread, its owner, and the other holders of the
   requests mutex *)

MaxReports == 2

InitMonitor ==
    /\ monitor \in {"Standard", "Disabled", "Progress"}
    /\ tpc = "recv" /\ chan = 0 /\ poisoned = FALSE /\ spc = "running"
    /\ finished = 0 /\ reports = 0 /\ lateReport = FALSE
    /\ ClassifyIdle /\ PairIdle /\ IndexIdle /\ DownloadIdle

\* The owner still holds the Sender
SenderAlive == spc \in {"running", "sent"}

\* Mutant: only a message ends the loop; a dropped Sender counts as empty
TryRecv_message_only ==
    /\ tpc = "recv"
    /\ IF chan > 0
       THEN /\ chan' = chan - 1
            /\ finished' = finished + 1
            /\ tpc' = "done"
       ELSE /\ tpc' = "sleep"
            /\ UNCHANGED <<chan, finished>>
    /\ UNCHANGED <<monitor, poisoned, spc, reports, lateReport>>
    /\ UNCHANGED <<classifyVars, pairVars, indexVars, downloadVars>>

\* match rx.try_recv(): a message or a dropped sender ends the loop after
\* progress_bar.finish_and_clear(); an empty channel goes on
TryRecv ==
    /\ tpc = "recv"
    /\ IF chan > 0 \/ ~SenderAlive
       THEN /\ chan' = IF chan > 0 THEN chan - 1 ELSE chan
            /\ finished' = finished + 1
            /\ tpc' = "done"
       ELSE /\ tpc' = "sleep"
            /\ UNCHANGED <<chan, finished>>
    /\ UNCHANGED <<monitor, poisoned, spc, reports, lateReport>>
    /\ UNCHANGED <<classifyVars, pairVars, indexVars, downloadVars>>

\* thread::sleep(interval), in each arm of match monitor
Sleep ==
    /\ tpc = "sleep"
    /\ tpc' = IF monitor = "Disabled" THEN "recv" ELSE "report"
    /\ UNCHANGED <<monitor, chan, poisoned, spc, finished, reports, lateReport>>
    /\ UNCHANGED <<classifyVars, pairVars, indexVars, downloadVars>>

\* Stats::new(requests.lock().unwrap().to_vec(), ..).tps_status(), printed or set
\* as the bar's message; a poisoned mutex fails the unwrap
Report ==
    /\ tpc = "report"
    /\ IF poisoned
       THEN /\ tpc' = "panicked"
            /\ UNCHANGED <<reports, lateReport>>
       ELSE /\ tpc' = "recv"
            /\ reports' = IF reports < MaxReports THEN reports + 1 ELSE reports
            /\ lateReport' = (lateReport \/ finished > 0)
    /\ UNCHANGED <<monitor, chan, poisoned, spc, finished>>
    /\ UNCHANGED <<classifyVars, pairVars, indexVars, downloadVars>>

\* A thread sharing the requests mutex panics while it holds the lock
Poison ==
    /\ tpc \in {"recv", "sleep", "report"}
    /\ ~poisoned
    /\ poisoned' = TRUE
    /\ UNCHANGED <<monitor, tpc, chan, spc, finished, reports, lateReport>>
    /\ UNCHANGED <<classifyVars, pairVars, indexVars, downloadVars>>

\* stop: self.stop_signal.send(()).unwrap(); the send fails when the Receiver is
\* gone, which it is once the thread has ended
StopSend ==
    /\ spc = "running"
    /\ IF tpc \in {"done", "panicked"}
       THEN spc' = "send_panic" /\ UNCHANGED chan
       ELSE spc' = "sent" /\ chan' = chan + 1
    /\ UNCHANGED <<monitor, tpc, poisoned, finished, reports, lateReport>>
    /\ UNCHANGED <<classifyVars, pairVars, indexVars, downloadVars>>

\* stop: self.handle.join().unwrap(); join gives Err when the thread panicked
StopJoin ==
    /\ spc = "sent"
    /\ tpc \in {"done", "panicked"}
    /\ spc' = IF tpc = "done" THEN "returned" ELSE "join_panic"
    /\ UNCHANGED <<monitor, tpc, chan, poisoned, finished, reports, lateReport>>
    /\ UNCHANGED <<classifyVars, pairVars, indexVars, downloadVars>>

\* The MonitorThread value is dropped without stop: the Sender goes, the thread
\* is detached
DropMonitor ==
    /\ spc = "running"
    /\ spc' = "dropped"
    /\ UNCHANGED <<monitor, tpc, chan, poisoned, finished, reports, lateReport>>
    /\ UNCHANGED <<classifyVars, pairVars, indexVars, downloadVars>>

NextMonitor ==
    TryRecv \/ Sleep \/ Report \/ Poison \/ StopSend \/ StopJoin \/ DropMonitor

SpecMonitor == InitMonitor /\ [][NextMonitor]_vars

\* The scheduler runs the spawned thread and the joining owner; sleeps end
FairSpecMonitor ==
    /\ SpecMonitor
    /\ WF_vars(TryRecv) /\ WF_vars(Sleep) /\ WF_vars(Report) /\ WF_vars(StopJoin)

----------------------------------------------------------------------------
(* Claims about ChecksumType::from_filename and the strip (SpecClassify) *)

\* C2: from_filename gives Sha256 exactly for the names ending in ".sha256",
\* Sha1 exactly for those ending in ".sha1" and None for the rest, and after a
\* kind was given the strip succeeds and removes exactly that kind's extension:
\* the unwrap never fails.
C2_ClassifyAndStrip ==
    /\ cpc # "start" =>
          /\ kind = "Sha256" <=> EndsWith(name, <<".", "sha256">>)
          /\ kind = "Sha1" <=> EndsWith(name, <<".", "sha1">>)
    /\ cpc # "panic"
    /\ cpc = "sidecar" => stripped.some /\ stripped.val \o Extension(kind) = name

----------------------------------------------------------------------------
(* Claims about Asset::assets_from_dtos (SpecPair) *)

Returned == res.called /\ ~res.panic

IsSidecar(dto) == from_filename(dto.name) # "None"

\* The (primary, optional (kind, checksum file)) associations of a result
Assoc(r) == {r.assets[i] : i \in 1..Len(r.assets)}

\* The files of one release have names of their own
DistinctNames == \A i, j \in 1..Len(dtos) : dtos[i].name = dtos[j].name => i = j

\* C1: the associations of assets_from_dtos do not depend on the order of the
\* input: a call on a permutation of the files gives the same set as the
\* first call did.  Stated for the lists of distinctly named files, the
\* .sha1 and the .sha256 sidecar of one primary among them.
C1_OrderIndependent ==
    (res.called /\ first.called /\ DistinctNames) =>
        /\ res.panic = first.panic
        /\ Assoc(res) = Assoc(first)

\* C3: every Asset of the result with a checksum pair has a checksum file
\* named as its primary file plus the pair's kind's suffix, and no Asset's
\* primary file is classified as a sidecar.
C3_PairNameInvariant ==
    Returned =>
        \A i \in 1..Len(res.assets) :
            LET a == res.assets[i]
            IN  /\ a.checksum.some =>
                     a.checksum.val.dto.name =
                        a.asset.name \o (IF a.checksum.val.kind = "Sha1"
                                         THEN <<".", "sha1">> ELSE <<".", "sha256">>)
                /\ ~IsSidecar(a.asset)

C3_Witness ==
    /\ Returned
    /\ \E i \in 1..Len(res.assets) :
          /\ res.assets[i].checksum.some
          /\ res.assets[i].checksum.val.kind = "Sha256"
    /\ \E i \in 1..Len(res.assets) :
          /\ ~res.assets[i].checksum.some
          /\ res.assets[i].asset.name = <<".", "sha1">>

\* The input positions of the sidecars that strip to the name n
SidecarsOf(n) ==
    {j \in 1..Len(dtos) :
        /\ IsSidecar(dtos[j])
        /\ StripSuffix(dtos[j].name, Extension(from_filename(dtos[j].name))) = Some(n)}

\* C8: the result holds one Asset per non-sidecar input file, in input order;
\* an attached sidecar is an input sidecar whose stripped name is the primary's
\* exact name; of the primaries sharing a name only the first can have one.
C8_OnePerPrimary ==
    Returned =>
        /\ [i \in 1..Len(res.assets) |-> res.assets[i].asset]
              = SelectSeq(dtos, LAMBDA d : ~IsSidecar(d))
        /\ \A i \in 1..Len(res.assets) :
              LET a == res.assets[i]
              IN  a.checksum.some =>
                    /\ \E j \in SidecarsOf(a.asset.name) :
                          a.checksum.val.dto = dtos[j]
                    /\ \A h \in 1..(i - 1) : res.assets[h].asset.name # a.asset.name

C8_Witness ==
    /\ Returned
    /\ Len(res.assets) = 2
    /\ res.assets[1].asset.name = res.assets[2].asset.name
    /\ res.assets[1].checksum.some
    /\ ~res.assets[2].checksum.some

Last(S) == CHOOSE j \in S : \A h \in S : h <= j

\* C9: when several input sidecars strip to one name, the first primary of that
\* name is paired with the last of them in the input, under that sidecar's own
\* kind (and has no pair when there is none).
C9_LastSidecarWins ==
    Returned =>
        \A i \in 1..Len(res.assets) :
            LET a == res.assets[i]
                S == SidecarsOf(a.asset.name)
            IN  (\A h \in 1..(i - 1) : res.assets[h].asset.name # a.asset.name) =>
                    a.checksum = IF S = {} THEN None
                                 ELSE Some([kind |-> from_filename(dtos[Last(S)].name),
                                            dto |-> dtos[Last(S)]])

C9_Witness ==
    /\ Returned
    /\ Len(dtos) = 3
    /\ dtos[1].name = <<"a", ".", "sha256">>
    /\ dtos[2].name = <<"a">>
    /\ dtos[3].name = <<"a", ".", "sha1">>
    /\ res.assets[1].checksum = Some([kind |-> "Sha1", dto |-> dtos[3]])

----------------------------------------------------------------------------
(* Claims about CachedReleases and Release (SpecIndex) *)

Asked == found.tag # "NotAsked"

\* The stored releases whose version string is the requested one, character
\* for character
ExactMatches == {i \in 1..Len(inner) : inner[i].version = version}

\* C4: the lookup fails with CannotFindReleaseWithVersion(version) exactly when
\* no stored release has the requested version string as it is written, and
\* the error carries the requested string.
C4_ExactVersion ==
    Asked =>
        /\ found.tag = "Err" <=> ExactMatches = {}
        /\ found.tag = "Err" =>
              found.error = "CannotFindReleaseWithVersion" /\ found.version = version

C4_Witness ==
    /\ found.tag = "Err"
    /\ version = <<"v", "1.2.3">>
    /\ \E i \in 1..Len(inner) : inner[i].version = <<"1.2.3">>

\* C5: with a release of the requested version stored, the lookup is Ok: None
\* when the first such release in received order has no entry for the host's
\* compacted OS, that entry's asset when it has one.
C5_MissingOsIsNone ==
    (Asked /\ ExactMatches # {}) =>
        LET r == inner[CHOOSE i \in ExactMatches : \A j \in ExactMatches : i <= j]
            b == IF host \in {"Android", "Macos", "Redox", "Unknown", "Windows"}
                 THEN host ELSE "Linux"
        IN  /\ found.tag = "Ok"
            /\ found.asset = IF b \in DOMAIN r.releases_per_os
                             THEN Some(r.releases_per_os[b]) ELSE None

C5_Witness ==
    /\ found.tag = "Ok" /\ found.asset = None
    /\ host = "Ubuntu"
    /\ Len(inner) = 2
    /\ inner[1].version = version /\ inner[2].version = version
    /\ "Linux" \in DOMAIN inner[2].releases_per_os

\* C6: compact_os_types leaves Android, Macos, Redox, Windows and Unknown as
\* they are, maps every Linux distribution to Linux, gives one of the six
\* buckets, gives the same again when applied to its result, and maps to Linux
\* only what is Linux or a Linux distribution.
C6_CompactOs ==
    compacted >= 1 =>
        /\ host \in {"Android", "Macos", "Redox", "Windows", "Unknown"} => bucket = host
        /\ host \in LinuxFamily => bucket = "Linux"
        /\ bucket \in Buckets
        /\ compacted = 2 => bucket = compact_os_types(host)
        /\ bucket = "Linux" => host \in LinuxFamily

----------------------------------------------------------------------------
(* Claims about Asset::download_to (SpecDownload) *)

Decoded == HexDecode(checksum.val.text)

C7_Inv ==
    \* the sidecar is requested once at most, only for an asset with a pair,
    \* and only after the primary file was written
    /\ requests <= 1
    /\ requests > 0 => checksum.some /\ dpc \in {"fetched", "done"} /\ dres # "Download"
    /\ ~checksum.some => requests = 0 /\ ~verified
    \* Ok with a pair: the file's digest is the decoded sidecar
    /\ (dpc = "done" /\ dres = "Ok" /\ checksum.some) =>
          /\ verified /\ disk.some /\ Decoded.some
          /\ Digest(checksum.val.kind, disk.val) = Decoded.val
    \* WrongChecksum: the file is there and its digest is another
    /\ (dpc = "done" /\ dres = "WrongChecksum") =>
          /\ verified /\ disk.some /\ Decoded.some
          /\ Digest(checksum.val.kind, disk.val) # Decoded.val
    \* a sidecar that does decode and a file that is there: one of the two
    /\ (dpc = "done" /\ verified /\ disk.some) => dres \in {"Ok", "WrongChecksum"}
    /\ (dpc = "done" /\ dres = "InvalidChecksum") => ~Decoded.some /\ ~verified

\* The step that decodes and verifies leaves the file as it is
C7_Step == (dpc = "fetched" /\ dpc' = "done") => disk' = disk

\* C7: download_to writes the primary file first; with a checksum pair it then
\* fetches and hex-decodes the sidecar and checks the file on disk: Ok only when
\* the digest is the decoded sidecar, WrongChecksum when it is not, the file left
\* as it is in that case and when the sidecar is no hex; without a pair there is
\* no sidecar request and no check.
C7_DownloadVerifies == []C7_Inv /\ [][C7_Step]_vars

C7_Witness ==
    /\ dpc = "done" /\ dres = "WrongChecksum"
    /\ checksum.val.kind = "Sha256"
    /\ disk = Some("c2") /\ served = "c1"
    /\ Decoded.val = Digest("Sha256", "c1")

----------------------------------------------------------------------------
(* Claims about MonitorThread (FairSpecMonitor) *)

ThreadEnded == tpc \in {"done", "panicked"}

\* C10 as stated: once the stop signal is sent the thread, when it ends, has
\* left its loop at a try_recv and called finish_and_clear exactly once.
C10_StopAlwaysFinishes ==
    (spc \in {"sent", "returned", "join_panic"} /\ ThreadEnded) =>
        tpc = "done" /\ finished = 1

C10_Safety ==
    \* finish_and_clear is called once, on leaving the loop, and never otherwise
    /\ finished <= 1
    /\ finished = 1 <=> tpc = "done"
    \* the loop is left only after a stop signal or the drop of the Sender
    /\ tpc = "done" => spc \in {"sent", "returned", "dropped"}
    \* no report after finish_and_clear
    /\ ~lateReport
    \* the thread panics only on a poisoned mutex, which Disabled never locks
    /\ tpc = "panicked" => poisoned /\ monitor # "Disabled"
    \* the send fails, and the join gives Err, only when the thread panicked
    /\ spc \in {"send_panic", "join_panic"} => tpc = "panicked"
    /\ spc = "returned" => tpc = "done" /\ finished = 1

\* With a signal in the channel or the Sender gone, try_recv ends the loop
C10_Step ==
    (tpc = "recv" /\ (chan > 0 \/ ~SenderAlive) /\ tpc' # tpc) =>
        tpc' = "done" /\ finished' = finished + 1

\* C10, amended: once the stop signal is sent or the Sender dropped, the thread
\* ends: at its next try_recv, with finish_and_clear called exactly once and no
\* report after it, and then stop returns; or sooner by a panic at
\* lock().unwrap() on a poisoned requests mutex (Standard, Progress), without
\* finish_and_clear, and then stop panics at its join's unwrap.  The send of
\* stop fails only when the thread has panicked.
C10_StopTerminates ==
    /\ []C10_Safety
    /\ [][C10_Step]_vars
    /\ (spc = "sent") ~> (spc \in {"returned", "join_panic"})
    /\ (spc = "dropped") ~> ThreadEnded

C10_Witness ==
    /\ spc = "returned" /\ tpc = "done" /\ finished = 1
    /\ monitor = "Progress" /\ reports = MaxReports /\ poisoned

====
